---- MODULE Spec2Model ----
(***************************************************************************)
(* Model of the trading engine: MovingAverageCrossoverStrategy,            *)
(* RiskEngine, TradeExecutor, AlpacaAdapter and the run() cycle.           *)
(*                                                                         *)
(* Numbers.  Floats are modelled as exact rationals over integers:         *)
(*   - a close price is an integer;                                        *)
(*   - an SMA is kept as (sum, n), its value being sum / n, or NaN;        *)
(*   - confidence is kept in hundredths (50 is 0.5, 99 is 0.99);           *)
(*   - max_capital_per_position is cap / CapDen, max_daily_loss_pct and    *)
(*     stop_loss_pct are k / PctDen;                                       *)
(*   - max_position_value is kept in units of 1 / CapDen;                  *)
(*   - qty is kept in units of 1 / QtyScale (round(x, 4)).                 *)
(* round() is Python's round-half-to-even.                                 *)
(***************************************************************************)
EXTENDS Integers, Sequences, FiniteSets, TLC

VARIABLES
    pc,               \* position of the caller / of run()
    short_window,     \* MovingAverageCrossoverStrategy.short_window
    long_window,      \* MovingAverageCrossoverStrategy.long_window
    risk,             \* RiskEngine fields
    max_retries,      \* AlpacaAdapter._max_retries
    client,           \* AlpacaAdapter._client (identity of the TradingClient)
    calls,            \* calls received by TradingClient objects, in order
    sleeps,           \* number of time.sleep(retry_wait_seconds) calls
    data,             \* Close column of the price history
    signal,           \* StrategySignal
    equity,           \* float(account.equity)
    daily_pnl,        \* unrealized_pl + realized_pl
    today_trades,     \* count_today_filled_trades(open_orders)
    risk_decision,    \* RiskDecision
    last_price,       \* last_price argument of execute
    execution_result, \* ExecutionResult
    settings,         \* config.settings.settings
    ret,              \* outcome of the last adapter operation
    raised,           \* exception that left the operation, or NoError
    trace             \* core operations entered so far, in order

vars == <<pc, short_window, long_window, risk, max_retries, client, calls,
          sleeps, data, signal, equity, daily_pnl, today_trades,
          risk_decision, last_price, execution_result, settings, ret, raised, trace>>

----------------------------------------------------------------------------
(* Bounds *)
MaxBars == 4
MaxClose == 2
MinClose == 0 - 2
MaxWindow == 3
MaxRetriesBound == 3
MaxOps == 2

(* AlpacaAdapter.__init__ default, used by run() *)
DefaultMaxRetries == 3

(* Scales *)
CapDen == 20
PctDen == 100
QtyScale == 10000
ConfScale == 100

None == "<None>"
Null == [null |-> TRUE]
Late == 0
NoError == "NoError"
NaN == [nan |-> TRUE, sum |-> 0, n |-> 1]

Abs(x) == IF x < 0 THEN 0 - x ELSE x
Min(a, b) == IF a <= b THEN a ELSE b

(* Python round(): nearest integer to p / q, ties to even. *)
RoundHalfEven(p, q) ==
    LET pp == IF q < 0 THEN 0 - p ELSE p
        qq == Abs(q)
        f == pp \div qq
        r == pp % qq
    IN  IF 2 * r < qq THEN f
        ELSE IF 2 * r > qq THEN f + 1
        ELSE IF f % 2 = 0 THEN f ELSE f + 1

RECURSIVE SumSeq(_)
SumSeq(s) == IF s = <<>> THEN 0 ELSE Head(s) + SumSeq(Tail(s))

Closes == MinClose..MaxClose

RECURSIVE SeqsUpTo(_, _)
SeqsUpTo(S, n) ==
    IF n = 0 THEN {<<>>}
    ELSE LET shorter == SeqsUpTo(S, n - 1)
         IN  shorter \cup {Append(s, x) : s \in {t \in shorter : Len(t) = n - 1}, x \in S}

Windows == {w \in (1..MaxWindow) \X (1..MaxWindow) : w[1] < w[2]}

----------------------------------------------------------------------------
(* strategy/moving_average.py *)

(* df["Close"].rolling(window=w).mean() at 1-based row i *)
RollingMean(closes, w, i) ==
    IF i < w \/ i < 1 \/ i > Len(closes) THEN NaN
    ELSE [nan |-> FALSE, sum |-> SumSeq(SubSeq(closes, i - w + 1, i)), n |-> w]

(* float comparisons; any comparison with NaN is False *)
FLt(a, b) == ~a.nan /\ ~b.nan /\ a.sum * b.n < b.sum * a.n
FLe(a, b) == ~a.nan /\ ~b.nan /\ a.sum * b.n <= b.sum * a.n
FGt(a, b) == FLt(b, a)
FGe(a, b) == FLe(b, a)

CrossSignalStrictPrev(prev_short, prev_long, curr_short, curr_long) ==
    IF FLt(prev_short, prev_long) /\ FGt(curr_short, curr_long) THEN "BUY"
    ELSE IF FGt(prev_short, prev_long) /\ FLt(curr_short, curr_long) THEN "SELL"
    ELSE "HOLD"

CrossSignal(prev_short, prev_long, curr_short, curr_long) ==
    IF FLe(prev_short, prev_long) /\ FGt(curr_short, curr_long) THEN "BUY"
    ELSE IF FGe(prev_short, prev_long) /\ FLt(curr_short, curr_long) THEN "SELL"
    ELSE "HOLD"

(* round(0.5 + spread * 10, 2) in hundredths, spread = |short - long| / long,
   or 0.0 when long is falsy (0.0) *)
RawConfidence(curr_short, curr_long) ==
    IF curr_long.sum = 0 THEN ConfScale \div 2
    ELSE LET num == Abs(curr_short.sum * curr_long.n - curr_long.sum * curr_short.n)
             den == curr_short.n * curr_long.sum
         IN  RoundHalfEven((ConfScale \div 2) * den + 10 * ConfScale * num, den)

Confidence(sig, curr_short, curr_long) ==
    IF sig # "HOLD" THEN Min(ConfScale - 1, RawConfidence(curr_short, curr_long))
    ELSE ConfScale \div 2

InsufficientDataShortWindow(closes) == Len(closes) < short_window

InsufficientData(closes) == Len(closes) < long_window

(* generate_signal: [raised, value] *)
GenerateSignal(symbol, closes) ==
    IF InsufficientData(closes)
    THEN [raised |-> "Insufficient data for long SMA window", value |-> Null]
    ELSE IF Len(closes) < 2
    THEN [raised |-> "IndexError", value |-> Null]
    ELSE LET n == Len(closes)
             prev_short == RollingMean(closes, short_window, n - 1)
             prev_long == RollingMean(closes, long_window, n - 1)
             curr_short == RollingMean(closes, short_window, n)
             curr_long == RollingMean(closes, long_window, n)
             sig == CrossSignal(prev_short, prev_long, curr_short, curr_long)
         IN  [raised |-> NoError,
              value |-> [symbol |-> symbol, signal |-> sig,
                         confidence |-> Confidence(sig, curr_short, curr_long)]]

----------------------------------------------------------------------------
(* risk/risk_engine.py *)

RiskDecision(approved, reason, max_position_value, stop_loss_pct) ==
    [approved |-> approved, reason |-> reason,
     max_position_value |-> max_position_value, stop_loss_pct |-> stop_loss_pct]

EvaluateLossInclusive(r, sig, eq, trades, pnl) ==
    IF sig = "HOLD"
    THEN RiskDecision(FALSE, "Signal is HOLD", 0, r.stop_loss_pct)
    ELSE IF trades >= r.max_trades_per_day
    THEN RiskDecision(FALSE, "Daily trade limit reached", 0, r.stop_loss_pct)
    ELSE IF eq > 0 /\ Abs(Min(pnl, 0)) * PctDen >= r.max_daily_loss_pct * eq
    THEN RiskDecision(FALSE, "Daily loss limit exceeded", 0, r.stop_loss_pct)
    ELSE IF eq * r.max_capital_per_position <= 0
    THEN RiskDecision(FALSE, "Invalid position sizing from equity", 0, r.stop_loss_pct)
    ELSE RiskDecision(TRUE, "Approved", eq * r.max_capital_per_position, r.stop_loss_pct)

(* RiskEngine.evaluate; daily_loss / equity > max_daily_loss_pct is compared
   cross-multiplied (equity > 0 on that branch) *)
Evaluate(r, sig, eq, trades, pnl) ==
    IF sig = "HOLD"
    THEN RiskDecision(FALSE, "Signal is HOLD", 0, r.stop_loss_pct)
    ELSE IF trades >= r.max_trades_per_day
    THEN RiskDecision(FALSE, "Daily trade limit reached", 0, r.stop_loss_pct)
    ELSE LET daily_loss == Abs(Min(pnl, 0))
         IN  IF eq > 0 /\ daily_loss * PctDen > r.max_daily_loss_pct * eq
             THEN RiskDecision(FALSE, "Daily loss limit exceeded", 0, r.stop_loss_pct)
             ELSE LET max_position_value == eq * r.max_capital_per_position
                  IN  IF max_position_value <= 0
                      THEN RiskDecision(FALSE, "Invalid position sizing from equity", 0,
                                        r.stop_loss_pct)
                      ELSE RiskDecision(TRUE, "Approved", max_position_value,
                                        r.stop_loss_pct)

(* count_today_filled_trades: orders is the sequence of the orders' filled_at
   dates (None, "today" or another date) *)
RECURSIVE CountTodayFilledTrades(_)
CountTodayFilledTrades(orders) ==
    IF orders = <<>> THEN 0
    ELSE (IF Head(orders) # None /\ Head(orders) = "today" THEN 1 ELSE 0)
         + CountTodayFilledTrades(Tail(orders))

----------------------------------------------------------------------------
(* broker/alpaca_adapter.py *)

(* _build_client: a fresh TradingClient object *)
BuildClient(cl) == cl + 1

(* One underlying TradingClient call: which client object received it, and
   which object self._client referred to at that moment. *)
ClientCall(op, args, attempt, on, current, outcome, result) ==
    [op |-> op, args |-> args, attempt |-> attempt, on |-> on,
     current |-> current, outcome |-> outcome, result |-> result]

(* _with_retry.  captured is the client a bound method was taken from when
   the argument was built (get_account, get_positions, get_open_orders), or
   Late for a lambda that reads self._client when called (submit_order,
   cancel_order).  script[k] is what the k-th underlying call does: "ok",
   "api_error" (alpaca APIError) or "conn_error" (any other exception).
   resp is what a successful call returns.  A loop that ends without a
   return makes the function return None. *)
RECURSIVE WithRetryFrom(_, _, _, _, _, _, _, _, _, _)
WithRetryFrom(attempt, retries, op, args, captured, script, resp, cl, log, sl) ==
    IF attempt > retries
    THEN [kind |-> "returned", value |-> Null, client |-> cl, calls |-> log, sleeps |-> sl]
    ELSE LET on == IF captured = Late THEN cl ELSE captured
             log2 == Append(log, ClientCall(op, args, attempt, on, cl, script[attempt],
                                           IF script[attempt] = "ok" THEN resp ELSE Null))
         IN  IF script[attempt] = "ok"
             THEN [kind |-> "returned", value |-> resp, client |-> cl,
                   calls |-> log2, sleeps |-> sl]
             ELSE IF script[attempt] = "conn_error"
             THEN [kind |-> "raised", value |-> "ConnectionError", client |-> cl,
                   calls |-> log2, sleeps |-> sl]
             ELSE IF attempt >= retries
             THEN [kind |-> "raised", value |-> "APIError", client |-> cl,
                   calls |-> log2, sleeps |-> sl]
             ELSE WithRetryFrom(attempt + 1, retries, op, args, captured, script, resp,
                                BuildClient(cl), log2, sl + 1)

WithRetry(retries, op, args, captured, script, resp, cl, log, sl) ==
    WithRetryFrom(1, retries, op, args, captured, script, resp, cl, log, sl)

GetAccount(retries, script, resp, cl, log, sl) ==
    WithRetry(retries, "get_account", Null, cl, script, resp, cl, log, sl)

GetPositions(retries, script, resp, cl, log, sl) ==
    WithRetry(retries, "get_positions", Null, cl, script, resp, cl, log, sl)

GetOpenOrders(retries, script, resp, cl, log, sl) ==
    WithRetry(retries, "get_open_orders", Null, cl, script, resp, cl, log, sl)

OrderSide(side) == IF side = "BUY" THEN "OrderSide.BUY" ELSE "OrderSide.SELL"

SubmitOrder(retries, symbol, qty, side, script, resp, cl, log, sl) ==
    WithRetry(retries, "submit_order",
              [symbol |-> symbol, qty |-> qty, side |-> OrderSide(side)],
              Late, script, resp, cl, log, sl)

CancelOrder(retries, order_id, script, resp, cl, log, sl) ==
    WithRetry(retries, "cancel_order", [order_id |-> order_id], Late, script, resp, cl, log, sl)

----------------------------------------------------------------------------
(* execution/executor.py *)

ExecutionResult(executed, reason, qty, order_id) ==
    [executed |-> executed, reason |-> reason, qty |-> qty, order_id |-> order_id]

(* str() of an order id or of None *)
Str(x) == IF x = None THEN "None" ELSE x

(* getattr(order, "id", None) *)
OrderIdOf(order) == IF order = Null THEN None ELSE order.id

UnsupportedSignal(s) ==
    CASE s = "HOLD" -> "Unsupported signal HOLD"
      [] s = "SHORT" -> "Unsupported signal SHORT"
      [] s = "BUY" -> "Unsupported signal BUY"
      [] s = "SELL" -> "Unsupported signal SELL"

(* round(max_position_value / last_price, 4), in 1 / QtyScale *)
Quantity(max_position_value, price) ==
    RoundHalfEven(max_position_value * QtyScale, price * CapDen)

Declined(result, cl, log, sl) ==
    [result |-> result, client |-> cl, calls |-> log, sleeps |-> sl]

(* execute reporting a failed submission with qty 0.0 *)
ExecuteFailureQtyZero(sig, decision, price, retries, script, resp, cl, log, sl) ==
    IF ~decision.approved
    THEN Declined(ExecutionResult(FALSE, decision.reason, 0, None), cl, log, sl)
    ELSE IF sig.signal \notin {"BUY", "SELL"}
    THEN Declined(ExecutionResult(FALSE, UnsupportedSignal(sig.signal), 0, None), cl, log, sl)
    ELSE IF price <= 0
    THEN Declined(ExecutionResult(FALSE, "Invalid market price", 0, None), cl, log, sl)
    ELSE LET qty == Quantity(decision.max_position_value, price)
         IN  IF qty <= 0
             THEN Declined(ExecutionResult(FALSE, "Calculated quantity is zero", 0, None),
                           cl, log, sl)
             ELSE LET r == SubmitOrder(retries, sig.symbol, qty, sig.signal,
                                       script, resp, cl, log, sl)
                  IN  [result |-> IF r.kind = "returned"
                                  THEN ExecutionResult(TRUE, "Order submitted", qty,
                                                       Str(OrderIdOf(r.value)))
                                  ELSE ExecutionResult(FALSE, r.value, 0, None),
                       client |-> r.client, calls |-> r.calls, sleeps |-> r.sleeps]

(* execute checking the price before the risk approval *)
ExecutePriceFirst(sig, decision, price, retries, script, resp, cl, log, sl) ==
    IF price <= 0
    THEN Declined(ExecutionResult(FALSE, "Invalid market price", 0, None), cl, log, sl)
    ELSE IF ~decision.approved
    THEN Declined(ExecutionResult(FALSE, decision.reason, 0, None), cl, log, sl)
    ELSE IF sig.signal \notin {"BUY", "SELL"}
    THEN Declined(ExecutionResult(FALSE, UnsupportedSignal(sig.signal), 0, None), cl, log, sl)
    ELSE LET qty == Quantity(decision.max_position_value, price)
         IN  IF qty <= 0
             THEN Declined(ExecutionResult(FALSE, "Calculated quantity is zero", 0, None),
                           cl, log, sl)
             ELSE LET r == SubmitOrder(retries, sig.symbol, qty, sig.signal,
                                       script, resp, cl, log, sl)
                  IN  [result |-> IF r.kind = "returned"
                                  THEN ExecutionResult(TRUE, "Order submitted", qty,
                                                       Str(OrderIdOf(r.value)))
                                  ELSE ExecutionResult(FALSE, r.value, qty, None),
                       client |-> r.client, calls |-> r.calls, sleeps |-> r.sleeps]

(* TradeExecutor.execute; the adapter state goes in and comes out *)
Execute(sig, decision, price, retries, script, resp, cl, log, sl) ==
    IF ~decision.approved
    THEN Declined(ExecutionResult(FALSE, decision.reason, 0, None), cl, log, sl)
    ELSE IF sig.signal \notin {"BUY", "SELL"}
    THEN Declined(ExecutionResult(FALSE, UnsupportedSignal(sig.signal), 0, None), cl, log, sl)
    ELSE IF price <= 0
    THEN Declined(ExecutionResult(FALSE, "Invalid market price", 0, None), cl, log, sl)
    ELSE LET qty == Quantity(decision.max_position_value, price)
         IN  IF qty <= 0
             THEN Declined(ExecutionResult(FALSE, "Calculated quantity is zero", 0, None),
                           cl, log, sl)
             ELSE LET r == SubmitOrder(retries, sig.symbol, qty, sig.signal,
                                       script, resp, cl, log, sl)
                  IN  [result |-> IF r.kind = "returned"
                                  THEN ExecutionResult(TRUE, "Order submitted", qty,
                                                       Str(OrderIdOf(r.value)))
                                  ELSE ExecutionResult(FALSE, r.value, qty, None),
                       client |-> r.client, calls |-> r.calls, sleeps |-> r.sleeps]

----------------------------------------------------------------------------
(* Input domains *)

Symbol == "SPY"

(* config/settings.py defaults of the risk thresholds: 0.05, 2, 0.02, 0.03 *)
DefaultRisk ==
    [max_capital_per_position |-> 1, max_trades_per_day |-> 2,
     stop_loss_pct |-> 2, max_daily_loss_pct |-> 3]

DefaultSettings ==
    [api_key_set |-> TRUE, short_window |-> 1, long_window |-> 2, risk |-> DefaultRisk]

Outcomes == {"ok", "api_error", "conn_error"}
Scripts(n) == [1..n -> Outcomes]
OrderIds == {"o1", "o2"}

Signals == {"BUY", "SELL", "HOLD"}

RiskConfigs ==
    [max_capital_per_position : {0 - 1, 0, 1}, max_trades_per_day : {0, 2},
     stop_loss_pct : {2, 5}, max_daily_loss_pct : {0, 3}]
Equities == {0 - 1000, 0, 1000}
Pnls == {0 - 31, 0 - 30, 0 - 29, 0, 5}
TradeCounts == 0..3

PositionValues == {0 - 20, 0, 1, 40, 2000}
Rejections == {"Signal is HOLD", "Daily trade limit reached"}
Decisions ==
    {RiskDecision(TRUE, "Approved", m, 2) : m \in PositionValues}
    \cup {RiskDecision(FALSE, r, 0, 2) : r \in Rejections}
Prices == {0 - 1, 0, 3, 100, 30000}
ExecSignals == {[symbol |-> Symbol, signal |-> g, confidence |-> 50] :
                g \in Signals \cup {"SHORT"}}

Accounts == {[equity |-> 1000, pnl |-> 0], [equity |-> 1000, pnl |-> 0 - 40],
             [equity |-> 0, pnl |-> 0]}
OrderLists == {<<>>, <<"today", None, "yesterday", "today">>}

MaxRunBars == 3
RunCloses == {0, 1, 3}
RunSettings ==
    {[api_key_set |-> k, short_window |-> w[1], long_window |-> w[2], risk |-> DefaultRisk] :
        k \in BOOLEAN, w \in Windows \cup {<<2, 2>>}}

----------------------------------------------------------------------------
(* State after construction, before any call *)

Idle ==
    /\ client = 1
    /\ calls = <<>>
    /\ sleeps = 0
    /\ signal = Null
    /\ equity = 0
    /\ daily_pnl = 0
    /\ today_trades = 0
    /\ risk_decision = Null
    /\ last_price = 0
    /\ execution_result = Null
    /\ ret = Null
    /\ raised = NoError
    /\ trace = <<>>

----------------------------------------------------------------------------
(* The strategy alone: generate_signal on any price history *)

InitStrategy ==
    /\ Idle
    /\ pc = "call"
    /\ settings = DefaultSettings
    /\ \E w \in Windows : short_window = w[1] /\ long_window = w[2]
    /\ risk = DefaultRisk
    /\ max_retries = DefaultMaxRetries
    /\ data \in SeqsUpTo(Closes, MaxBars)

CallGenerateSignal ==
    /\ pc = "call"
    /\ LET g == GenerateSignal(Symbol, data)
       IN  /\ signal' = g.value
           /\ raised' = g.raised
    /\ trace' = Append(trace, "generate_signal")
    /\ pc' = "returned"
    /\ UNCHANGED <<short_window, long_window, risk, max_retries, client, calls, sleeps,
                   data, equity, daily_pnl, today_trades, risk_decision, last_price,
                   execution_result, settings, ret>>

NextStrategy == CallGenerateSignal

SpecStrategy == InitStrategy /\ [][NextStrategy]_vars

----------------------------------------------------------------------------
(* The risk engine alone: evaluate on any inputs *)

InitRisk ==
    /\ pc = "call"
    /\ settings = DefaultSettings
    /\ short_window = 1
    /\ long_window = 2
    /\ risk \in RiskConfigs
    /\ max_retries = DefaultMaxRetries
    /\ data = <<>>
    /\ client = 1
    /\ calls = <<>>
    /\ sleeps = 0
    /\ signal \in {[symbol |-> Symbol, signal |-> g, confidence |-> 50] : g \in Signals}
    /\ equity \in Equities
    /\ daily_pnl \in Pnls
    /\ today_trades \in TradeCounts
    /\ risk_decision = Null
    /\ last_price = 0
    /\ execution_result = Null
    /\ ret = Null
    /\ raised = NoError
    /\ trace = <<>>

CallEvaluate ==
    /\ pc = "call"
    /\ risk_decision' = Evaluate(risk, signal.signal, equity, today_trades, daily_pnl)
    /\ trace' = Append(trace, "evaluate")
    /\ pc' = "returned"
    /\ UNCHANGED <<short_window, long_window, risk, max_retries, client, calls, sleeps,
                   data, signal, equity, daily_pnl, today_trades, last_price,
                   execution_result, settings, ret, raised>>

NextRisk == CallEvaluate

SpecRisk == InitRisk /\ [][NextRisk]_vars

----------------------------------------------------------------------------
(* The executor over the adapter: execute on any signal, decision and price *)

InitExecutor ==
    /\ pc = "call"
    /\ settings = DefaultSettings
    /\ short_window = 1
    /\ long_window = 2
    /\ risk = DefaultRisk
    /\ max_retries \in 0..MaxRetriesBound
    /\ data = <<>>
    /\ client = 1
    /\ calls = <<>>
    /\ sleeps = 0
    /\ signal \in ExecSignals
    /\ equity = 0
    /\ daily_pnl = 0
    /\ today_trades = 0
    /\ risk_decision \in Decisions
    /\ last_price \in Prices
    /\ execution_result = Null
    /\ ret = Null
    /\ raised = NoError
    /\ trace = <<>>

CallExecute ==
    /\ pc = "call"
    /\ \E script \in Scripts(MaxRetriesBound), id \in OrderIds :
          LET e == Execute(signal, risk_decision, last_price, max_retries, script,
                           [id |-> id], client, calls, sleeps)
          IN  /\ execution_result' = e.result
              /\ client' = e.client
              /\ calls' = e.calls
              /\ sleeps' = e.sleeps
    /\ trace' = Append(trace, "execute")
    /\ pc' = "returned"
    /\ UNCHANGED <<short_window, long_window, risk, max_retries, data, signal, equity,
                   daily_pnl, today_trades, risk_decision, last_price, settings, ret,
                   raised>>

NextExecutor == CallExecute

SpecExecutor == InitExecutor /\ [][NextExecutor]_vars

----------------------------------------------------------------------------
(* The adapter alone: up to MaxOps broker operations on one AlpacaAdapter *)

InitAdapter ==
    /\ Idle
    /\ pc = "call"
    /\ settings = DefaultSettings
    /\ short_window = 1
    /\ long_window = 2
    /\ risk = DefaultRisk
    /\ max_retries \in 0..MaxRetriesBound
    /\ data = <<>>

(* the caller's view of an adapter operation that ended as r *)
Finish(name, r) ==
    /\ ret' = [kind |-> r.kind, value |-> r.value]
    /\ raised' = IF r.kind = "raised" THEN r.value ELSE NoError
    /\ client' = r.client
    /\ calls' = r.calls
    /\ sleeps' = r.sleeps
    /\ trace' = Append(trace, name)
    /\ UNCHANGED <<pc, short_window, long_window, risk, max_retries, data, signal, equity,
                   daily_pnl, today_trades, risk_decision, last_price, execution_result,
                   settings>>

OpGetAccount ==
    /\ pc = "call"
    /\ Len(trace) < MaxOps
    /\ \E script \in Scripts(MaxRetriesBound), a \in Accounts :
          Finish("get_account", GetAccount(max_retries, script, a, client, calls, sleeps))

OpGetPositions ==
    /\ pc = "call"
    /\ Len(trace) < MaxOps
    /\ \E script \in Scripts(MaxRetriesBound) :
          Finish("get_positions",
                 GetPositions(max_retries, script, [positions |-> <<>>], client, calls, sleeps))

OpGetOpenOrders ==
    /\ pc = "call"
    /\ Len(trace) < MaxOps
    /\ \E script \in Scripts(MaxRetriesBound), o \in OrderLists :
          Finish("get_open_orders",
                 GetOpenOrders(max_retries, script, [orders |-> o], client, calls, sleeps))

OpSubmitOrder ==
    /\ pc = "call"
    /\ Len(trace) < MaxOps
    /\ \E script \in Scripts(MaxRetriesBound), id \in OrderIds, side \in {"BUY", "SELL"} :
          Finish("submit_order",
                 SubmitOrder(max_retries, Symbol, QtyScale, side, script, [id |-> id],
                             client, calls, sleeps))

OpCancelOrder ==
    /\ pc = "call"
    /\ Len(trace) < MaxOps
    /\ \E script \in Scripts(MaxRetriesBound), id \in OrderIds :
          Finish("cancel_order",
                 CancelOrder(max_retries, id, script, [cancelled |-> id],
                             client, calls, sleeps))

NextAdapter ==
    \/ OpGetAccount
    \/ OpGetPositions
    \/ OpGetOpenOrders
    \/ OpSubmitOrder
    \/ OpCancelOrder

SpecAdapter == InitAdapter /\ [][NextAdapter]_vars

----------------------------------------------------------------------------
(* main.py: one run() cycle *)

RunData == SeqsUpTo(RunCloses, MaxRunBars) \ {<<>>}

Init ==
    /\ pc = "start"
    /\ settings \in RunSettings
    /\ short_window = 0
    /\ long_window = 0
    /\ risk = Null
    /\ max_retries = 0
    /\ client = 0
    /\ calls = <<>>
    /\ sleeps = 0
    /\ data = <<>>
    /\ signal = Null
    /\ equity = 0
    /\ daily_pnl = 0
    /\ today_trades = 0
    /\ risk_decision = Null
    /\ last_price = 0
    /\ execution_result = Null
    /\ ret = Null
    /\ raised = NoError
    /\ trace = <<>>

(* an exception leaves run() *)
Abort(msg) ==
    /\ raised' = msg
    /\ pc' = "raised"

(* lines 57-73: the adapter, the strategy, the risk engine, the executor *)
RunConstruct ==
    /\ pc = "start"
    /\ IF ~settings.api_key_set
       THEN /\ Abort("ALPACA_API_KEY and ALPACA_SECRET_KEY are required.")
            /\ UNCHANGED <<short_window, long_window, risk, max_retries, client>>
       ELSE IF settings.short_window >= settings.long_window
       THEN /\ Abort("short_window must be < long_window")
            /\ max_retries' = DefaultMaxRetries
            /\ client' = BuildClient(client)
            /\ UNCHANGED <<short_window, long_window, risk>>
       ELSE /\ max_retries' = DefaultMaxRetries
            /\ client' = BuildClient(client)
            /\ short_window' = settings.short_window
            /\ long_window' = settings.long_window
            /\ risk' = settings.risk
            /\ pc' = "fetch"
            /\ UNCHANGED raised
    /\ UNCHANGED <<calls, sleeps, data, signal, equity, daily_pnl, today_trades,
                   risk_decision, last_price, execution_result, settings, ret, trace>>

(* line 75: get_ohlcv returns a non-empty history or raises *)
RunFetch ==
    /\ pc = "fetch"
    /\ \/ \E d \in RunData :
             /\ data' = d
             /\ pc' = "signal"
             /\ UNCHANGED raised
       \/ /\ Abort("No data received")
          /\ UNCHANGED data
    /\ trace' = Append(trace, "get_ohlcv")
    /\ UNCHANGED <<short_window, long_window, risk, max_retries, client, calls, sleeps,
                   signal, equity, daily_pnl, today_trades, risk_decision, last_price,
                   execution_result, settings, ret>>

(* line 76 *)
RunSignal ==
    /\ pc = "signal"
    /\ LET g == GenerateSignal(Symbol, data)
       IN  IF g.raised # NoError
           THEN /\ Abort(g.raised)
                /\ UNCHANGED signal
           ELSE /\ signal' = g.value
                /\ pc' = "account"
                /\ UNCHANGED raised
    /\ trace' = Append(trace, "generate_signal")
    /\ UNCHANGED <<short_window, long_window, risk, max_retries, client, calls, sleeps,
                   data, equity, daily_pnl, today_trades, risk_decision, last_price,
                   execution_result, settings, ret>>

(* lines 79-81 *)
RunAccount ==
    /\ pc = "account"
    /\ \E script \in Scripts(DefaultMaxRetries), a \in Accounts :
          LET r == GetAccount(max_retries, script, a, client, calls, sleeps)
          IN  /\ client' = r.client
              /\ calls' = r.calls
              /\ sleeps' = r.sleeps
              /\ ret' = [kind |-> r.kind, value |-> r.value]
              /\ IF r.kind = "raised"
                 THEN /\ Abort(r.value)
                      /\ UNCHANGED <<equity, daily_pnl>>
                 ELSE /\ equity' = r.value.equity
                      /\ daily_pnl' = r.value.pnl
                      /\ pc' = "orders"
                      /\ UNCHANGED raised
    /\ trace' = Append(trace, "get_account")
    /\ UNCHANGED <<short_window, long_window, risk, max_retries, data, signal,
                   today_trades, risk_decision, last_price, execution_result, settings>>

(* lines 83-84 *)
RunOrders ==
    /\ pc = "orders"
    /\ \E script \in Scripts(DefaultMaxRetries), o \in OrderLists :
          LET r == GetOpenOrders(max_retries, script, [orders |-> o], client, calls, sleeps)
          IN  /\ client' = r.client
              /\ calls' = r.calls
              /\ sleeps' = r.sleeps
              /\ ret' = [kind |-> r.kind, value |-> r.value]
              /\ IF r.kind = "raised"
                 THEN /\ Abort(r.value)
                      /\ UNCHANGED today_trades
                 ELSE /\ today_trades' = CountTodayFilledTrades(r.value.orders)
                      /\ pc' = "risk"
                      /\ UNCHANGED raised
    /\ trace' = Append(trace, "get_open_orders")
    /\ UNCHANGED <<short_window, long_window, risk, max_retries, data, signal, equity,
                   daily_pnl, risk_decision, last_price, execution_result, settings>>

(* lines 86-91 *)
RunRisk ==
    /\ pc = "risk"
    /\ risk_decision' = Evaluate(risk, signal.signal, equity, today_trades, daily_pnl)
    /\ trace' = Append(trace, "evaluate")
    /\ pc' = "execute"
    /\ UNCHANGED <<short_window, long_window, risk, max_retries, client, calls, sleeps,
                   data, signal, equity, daily_pnl, today_trades, last_price,
                   execution_result, settings, ret, raised>>

(* lines 97-98 *)
RunExecute ==
    /\ pc = "execute"
    /\ last_price' = data[Len(data)]
    /\ \E script \in Scripts(DefaultMaxRetries), id \in OrderIds :
          LET e == Execute(signal, risk_decision, data[Len(data)], max_retries, script,
                           [id |-> id], client, calls, sleeps)
          IN  /\ execution_result' = e.result
              /\ client' = e.client
              /\ calls' = e.calls
              /\ sleeps' = e.sleeps
    /\ trace' = Append(trace, "execute")
    /\ pc' = "done"
    /\ UNCHANGED <<short_window, long_window, risk, max_retries, data, signal, equity,
                   daily_pnl, today_trades, risk_decision, settings, ret, raised>>

Next ==
    \/ RunConstruct
    \/ RunFetch
    \/ RunSignal
    \/ RunAccount
    \/ RunOrders
    \/ RunRisk
    \/ RunExecute

Spec == Init /\ [][Next]_vars

----------------------------------------------------------------------------
(* Properties of generate_signal *)

(* Sum of the closes of the w bars ending at bar k, and whether they exist *)
TrailSum(k, w) ==
    LET f[j \in 0..w] == IF j = 0 THEN 0 ELSE f[j - 1] + data[k - j + 1]
    IN  f[w]
HasTrail(k, w) == k >= w /\ k <= Len(data)
BothSmas(k) == HasTrail(k, short_window) /\ HasTrail(k, long_window)
(* short SMA minus long SMA at bar k, times short_window * long_window *)
SmaGap(k) == TrailSum(k, short_window) * long_window - TrailSum(k, long_window) * short_window

CrossedUp ==
    LET n == Len(data)
    IN  BothSmas(n - 1) /\ BothSmas(n) /\ SmaGap(n - 1) <= 0 /\ SmaGap(n) > 0
CrossedDown ==
    LET n == Len(data)
    IN  BothSmas(n - 1) /\ BothSmas(n) /\ SmaGap(n - 1) >= 0 /\ SmaGap(n) < 0

(* C4: with at least long_window bars, generate_signal returns BUY exactly on
   an upward cross of the short SMA over the long SMA between the previous
   and the last bar, SELL exactly on a downward cross, HOLD otherwise. *)
C4_CrossoverSignal ==
    (pc = "returned" /\ Len(data) >= long_window) =>
        /\ raised = NoError
        /\ signal.signal \in Signals
        /\ (signal.signal = "BUY") <=> CrossedUp
        /\ (signal.signal = "SELL") <=> CrossedDown
        /\ (signal.signal = "HOLD") <=> (~CrossedUp /\ ~CrossedDown)

(* a BUY whose previous bar had the two SMAs exactly equal *)
C4_Witness ==
    /\ pc = "returned"
    /\ raised = NoError
    /\ signal.signal = "BUY"
    /\ SmaGap(Len(data) - 1) = 0

(* 100 * (0.5 + 10 * |short - long| / long) is ConfNum / ConfDen, ConfDen > 0;
   long = 0 takes the spread as 0 *)
ConfNum ==
    LET ls == TrailSum(Len(data), long_window)
        gap == Abs(SmaGap(Len(data)))
    IN  IF ls = 0 THEN 50
        ELSE IF ls > 0 THEN 50 * short_window * ls + 1000 * gap
        ELSE 0 - (50 * short_window * ls + 1000 * gap)
ConfDen ==
    LET ls == TrailSum(Len(data), long_window)
    IN  IF ls = 0 THEN 1 ELSE short_window * Abs(ls)
(* r is num / den rounded to the nearest integer, ties to even *)
IsRounded(r, num, den) ==
    /\ 2 * Abs(num - r * den) <= den
    /\ 2 * Abs(num - r * den) = den => r % 2 = 0
(* c = min(99, round(num / den)) *)
IsClaimedConfidence(c, num, den) ==
    IF 2 * num > 197 * den THEN c = 99 ELSE IsRounded(c, num, den)

(* the confidence of a BUY whose long SMA is 40 and whose short SMA is 40 + k,
   that is, whose spread is k / 40 *)
ConfidenceAtSpread(k) ==
    Confidence("BUY", [nan |-> FALSE, sum |-> 40 + k, n |-> 1],
               [nan |-> FALSE, sum |-> 40, n |-> 1])
ConfidenceMonotone ==
    \A k1, k2 \in 0..8 : k1 <= k2 => ConfidenceAtSpread(k1) <= ConfidenceAtSpread(k2)

(* C6: every returned StrategySignal has confidence in [0.5, 0.99]; HOLD has
   exactly 0.5; BUY and SELL have min(0.99, round(0.5 + 10 * spread, 2)),
   which does not decrease when the spread grows. *)
C6_ConfidenceRange ==
    (pc = "returned" /\ raised = NoError) =>
        /\ signal.confidence >= 50
        /\ signal.confidence <= 99
        /\ signal.signal = "HOLD" => signal.confidence = 50
        /\ signal.signal # "HOLD" => IsClaimedConfidence(signal.confidence, ConfNum, ConfDen)
        /\ ConfidenceMonotone

----------------------------------------------------------------------------
(* Properties of evaluate *)

RuleHold == signal.signal = "HOLD"
RuleTradeLimit == today_trades >= risk.max_trades_per_day
RuleDailyLoss ==
    /\ equity > 0
    /\ (IF daily_pnl < 0 THEN 0 - daily_pnl ELSE 0) * PctDen > risk.max_daily_loss_pct * equity
RuleSizing == equity * risk.max_capital_per_position <= 0

(* C2: evaluate applies HOLD, trade limit, daily loss (strictly above the
   limit), sizing in this order, the first matching rule decides; rejections
   size 0; every decision carries stop_loss_pct. *)
C2_RiskRuleOrder ==
    pc = "returned" =>
        /\ risk_decision.stop_loss_pct = risk.stop_loss_pct
        /\ RuleHold => risk_decision = RiskDecision(FALSE, "Signal is HOLD", 0, risk.stop_loss_pct)
        /\ (~RuleHold /\ RuleTradeLimit) =>
              risk_decision = RiskDecision(FALSE, "Daily trade limit reached", 0,
                                           risk.stop_loss_pct)
        /\ (~RuleHold /\ ~RuleTradeLimit /\ RuleDailyLoss) =>
              risk_decision = RiskDecision(FALSE, "Daily loss limit exceeded", 0,
                                           risk.stop_loss_pct)
        /\ (~RuleHold /\ ~RuleTradeLimit /\ ~RuleDailyLoss /\ RuleSizing) =>
              risk_decision = RiskDecision(FALSE, "Invalid position sizing from equity", 0,
                                           risk.stop_loss_pct)
        /\ (~RuleHold /\ ~RuleTradeLimit /\ ~RuleDailyLoss /\ ~RuleSizing) =>
              /\ risk_decision.approved
              /\ risk_decision.max_position_value = equity * risk.max_capital_per_position
        /\ ~risk_decision.approved => risk_decision.max_position_value = 0

(* approved with the loss ratio exactly at the limit *)
C2_Witness ==
    /\ pc = "returned"
    /\ equity > 0
    /\ daily_pnl < 0
    /\ (0 - daily_pnl) * PctDen = risk.max_daily_loss_pct * equity
    /\ risk_decision.approved

----------------------------------------------------------------------------
(* Properties of execute *)

Tradable == signal.signal \in {"BUY", "SELL"}
(* round(max_position_value / last_price, 4) <= 0, for last_price > 0 *)
RoundsToZero == risk_decision.max_position_value * QtyScale * 2 <= last_price * CapDen
GuardsPass == risk_decision.approved /\ Tradable /\ last_price > 0 /\ ~RoundsToZero
LastCall == calls[Len(calls)]
NoOrder(reason) == execution_result = ExecutionResult(FALSE, reason, 0, None) /\ calls = <<>>

(* C1: when the guards pass, a failed submit_order gives executed = false
   with the failure message, the attempted qty and no order id; a successful
   one gives executed = true, "Order submitted", that qty and the order id;
   execute returns a result either way. *)
C1_BrokerFailureCaptured ==
    (pc = "returned" /\ GuardsPass) =>
        /\ raised = NoError
        /\ execution_result # Null
        /\ execution_result.qty > 0
        /\ (calls # <<>> /\ LastCall.outcome = "api_error") =>
              execution_result = ExecutionResult(FALSE, "APIError", LastCall.args.qty, None)
        /\ (calls # <<>> /\ LastCall.outcome = "conn_error") =>
              execution_result =
                  ExecutionResult(FALSE, "ConnectionError", LastCall.args.qty, None)
        /\ (calls # <<>> /\ LastCall.outcome = "ok") =>
              execution_result =
                  ExecutionResult(TRUE, "Order submitted", LastCall.args.qty,
                                  LastCall.result.id)

(* a submission that failed on every attempt and was reported *)
C1_Witness ==
    /\ pc = "returned"
    /\ GuardsPass
    /\ Len(calls) > 1
    /\ LastCall.outcome = "api_error"
    /\ ~execution_result.executed
    /\ execution_result.qty > 0

(* C3: the guards are checked in the order approved, signal, price, qty; a
   decline has executed = false, qty 0, no order id and no broker call; the
   broker's submit_order is entered at most once. *)
C3_GuardOrder ==
    pc = "returned" =>
        /\ ~risk_decision.approved => NoOrder(risk_decision.reason)
        /\ (risk_decision.approved /\ ~Tradable) => NoOrder(UnsupportedSignal(signal.signal))
        /\ (risk_decision.approved /\ Tradable /\ last_price <= 0) =>
              NoOrder("Invalid market price")
        /\ (risk_decision.approved /\ Tradable /\ last_price > 0 /\ RoundsToZero) =>
              NoOrder("Calculated quantity is zero")
        /\ \A i, j \in 1..Len(calls) :
              /\ calls[i].op = "submit_order"
              /\ calls[i].attempt = calls[j].attempt => i = j

(* declined for the risk decision's reason although the price is invalid too *)
C3_Witness ==
    /\ pc = "returned"
    /\ ~risk_decision.approved
    /\ ~Tradable
    /\ last_price <= 0
    /\ execution_result.reason = risk_decision.reason

(* C9: executed = true only if a TradingClient accepted a submit_order for
   (symbol, qty, side) during the call. *)
C9_ExecutedImpliesAccepted ==
    (pc = "returned" /\ execution_result.executed) =>
        \E i \in 1..Len(calls) :
            /\ calls[i].op = "submit_order"
            /\ calls[i].outcome = "ok"
            /\ calls[i].args = [symbol |-> signal.symbol, qty |-> execution_result.qty,
                                side |-> OrderSide(signal.signal)]

(* C10: the submitted qty times last_price does not exceed
   max_position_value. *)
C10_OrderWithinCap ==
    (pc = "returned" /\ risk_decision.approved /\ last_price > 0 /\ calls # <<>>) =>
        calls[1].args.qty * last_price * CapDen <= risk_decision.max_position_value * QtyScale

----------------------------------------------------------------------------
(* Properties of the adapter's retry loop *)

(* C7: every retry follows a failed attempt, is made after a reconnect and on
   the reconnected client; at most max_retries attempts per operation, one
   wait per retry; the first success is returned and the last failure is
   raised. *)
C7_RetryOnReconnectedClient ==
    /\ \A i \in 1..Len(calls) :
          /\ calls[i].attempt <= max_retries
          /\ calls[i].attempt > 1 =>
                /\ i > 1
                /\ calls[i - 1].outcome = "api_error"
                /\ calls[i].current # calls[i - 1].current
                /\ calls[i].on = calls[i].current
    /\ sleeps = Cardinality({i \in 1..Len(calls) : calls[i].attempt > 1})
    /\ (trace # <<>> /\ max_retries > 0) =>
          /\ calls # <<>>
          /\ LastCall.op = trace[Len(trace)]
          /\ LastCall.outcome = "ok" => ret = [kind |-> "returned", value |-> LastCall.result]
          /\ LastCall.outcome # "ok" => ret.kind = "raised"

----------------------------------------------------------------------------
(* Properties of the run() cycle *)

Entered(name) == \E i \in 1..Len(trace) : trace[i] = name
Submissions == {i \in 1..Len(calls) : calls[i].op = "submit_order"}

(* C5: with fewer than long_window bars generate_signal raises the
   insufficient-data error and run() stops there: evaluate and execute are
   not entered and no order reaches the broker. *)
C5_ShortHistoryAborts ==
    (Entered("generate_signal") /\ Len(data) < long_window) =>
        /\ pc = "raised"
        /\ raised = "Insufficient data for long SMA window"
        /\ ~Entered("evaluate")
        /\ ~Entered("execute")
        /\ risk_decision = Null
        /\ execution_result = Null
        /\ Submissions = {}

(* run() aborted on a history of at least short_window bars *)
C5_Witness ==
    /\ pc = "raised"
    /\ Entered("generate_signal")
    /\ Len(data) >= short_window
    /\ Len(data) < long_window
    /\ raised = "Insufficient data for long SMA window"

ValidConfiguration == settings.api_key_set /\ settings.short_window < settings.long_window
Ended == pc \in {"done", "raised"}

(* C8: a cycle with a valid configuration and at least long_window bars of
   price data ends with exactly one ExecutionResult, whatever the broker
   does. *)
C8_OneResultPerCycle ==
    (Ended /\ ValidConfiguration /\ Entered("generate_signal")
       /\ Len(data) >= settings.long_window) =>
        /\ pc = "done"
        /\ execution_result # Null
        /\ Cardinality({i \in 1..Len(trace) : trace[i] = "execute"}) = 1

====
